---------------------------- MODULE Spec2Model ----------------------------
(***************************************************************************)
(* State-machine model of the control plane of the fractal ray marcher:    *)
(* the winit event closure of main.rs, RayMarchingApp (app.rs),            *)
(* InputHandler (input.rs), Camera (camera.rs) and Uniforms (uniforms.rs). *)
(*                                                                         *)
(* Number representations                                                  *)
(*   - f32 scalars of the time path (dt, fps_update_timer, uniforms.time,  *)
(*     fractal_power) are non-negative IEEE-754 binary32 values <<m, e>>   *)
(*     meaning m * 2^e with 2^23 <= m < 2^24 (or <<0, 0>>), rounded to     *)
(*     nearest, ties to even, as the hardware does.                        *)
(*   - u32 / i32 integers keep their width.                                *)
(*   - camera quantities are fixed point: angles in 1/AngleScale degree,   *)
(*     speed in 1/SpeedScale unit per second, lengths in 1/PosScale unit.  *)
(***************************************************************************)
EXTENDS Integers, Sequences, FiniteSets, TLC

VARIABLES
    keys_pressed,          \* InputHandler.keys_pressed
    left_mouse_pressed,    \* InputHandler.left_mouse_pressed
    right_mouse_pressed,   \* InputHandler.right_mouse_pressed
    middle_mouse_pressed,  \* InputHandler.middle_mouse_pressed
    last_mouse_pos,        \* InputHandler.last_mouse_pos
    mouse_captured,        \* InputHandler.mouse_captured
    camera,                \* RayMarchingApp.camera
    uniforms,              \* RayMarchingApp.uniforms
    frame_count,           \* RayMarchingApp.frame_count
    fps_update_timer,      \* RayMarchingApp.fps_update_timer
    current_fps,           \* RayMarchingApp.current_fps
    cursor_grab,           \* the window's pointer grab mode (WindowSystem)
    cursor_visible,        \* the window's cursor visibility (WindowSystem)
    renderer_size,         \* Renderer.size
    gpu_uniforms,          \* the block last uploaded to the Renderer
    exited,                \* control_flow.exit() has been called
    panicked,              \* the process aborted on an arithmetic overflow check
    event,                 \* the event the closure handled last
    calls                  \* outbound calls made while handling it

vars == <<keys_pressed, left_mouse_pressed, right_mouse_pressed,
          middle_mouse_pressed, last_mouse_pos, mouse_captured, camera,
          uniforms, frame_count, fps_update_timer, current_fps, cursor_grab,
          cursor_visible, renderer_size, gpu_uniforms, exited, panicked,
          event, calls>>

inputVars == <<keys_pressed, left_mouse_pressed, right_mouse_pressed,
               middle_mouse_pressed, last_mouse_pos, mouse_captured>>

appVars == <<frame_count, fps_update_timer, current_fps>>

windowVars == <<cursor_grab, cursor_visible>>

rendererVars == <<renderer_size, gpu_uniforms>>

----------------------------------------------------------------------------
(***************************************************************************)
(* IEEE-754 binary32 arithmetic on non-negative values.  A value is        *)
(* <<m, e>> = m * 2^e, normalised: m = 0 (then e = 0) or 2^23 <= m < 2^24. *)
(* Every operation computes the exact result and rounds it once, to        *)
(* nearest, ties to even.  The values the program computes here are finite *)
(* and not subnormal.                                                      *)
(***************************************************************************)
F32Zero == <<0, 0>>

F32One == <<8388608, -23>>

F32IsValue(a) ==
    /\ a \in Seq(Int) /\ Len(a) = 2
    /\ \/ a = F32Zero
       \/ a[1] >= 8388608 /\ a[1] < 16777216

RECURSIVE BitLen(_)
BitLen(n) == IF n = 0 THEN 0 ELSE 1 + BitLen(n \div 2)

\* The binary32 nearest to (M + f) * 2^e, where 0 < f < 1 if sticky and f = 0
\* otherwise.  A sticky result keeps at least one bit below the mantissa.
F32Round(M, e, sticky) ==
    IF M = 0 THEN F32Zero
    ELSE LET len == BitLen(M) IN
         IF len <= 24 THEN <<M * 2^(24 - len), e - (24 - len)>>
         ELSE LET k    == len - 24
                  q    == M \div 2^k
                  r    == M % 2^k
                  half == 2^(k - 1)
                  up   == r > half \/ (r = half /\ (sticky \/ q % 2 = 1))
              IN  IF ~up THEN <<q, e + k>>
                  ELSE IF q + 1 = 16777216 THEN <<8388608, e + k + 1>>
                  ELSE <<q + 1, e + k>>

\* n as f32 (the cast `n as f32` of a u32 below 2^31).
F32FromInt(n) == F32Round(n, 0, FALSE)

F32Le(a, b) ==
    IF a[1] = 0 THEN TRUE
    ELSE IF b[1] = 0 THEN FALSE
    ELSE a[2] < b[2] \/ (a[2] = b[2] /\ a[1] <= b[1])

F32Max(a, b) == IF F32Le(a, b) THEN b ELSE a

F32Min(a, b) == IF F32Le(a, b) THEN a ELSE b

\* a + b
F32Add(a, b) ==
    IF a[1] = 0 THEN b
    ELSE IF b[1] = 0 THEN a
    ELSE LET hi == IF a[2] >= b[2] THEN a ELSE b
             lo == IF a[2] >= b[2] THEN b ELSE a
             d  == hi[2] - lo[2]
         IN  IF d > 27 THEN hi
             ELSE LET A == hi[1] * 8
                      B == (lo[1] * 8) \div 2^d
                      s == (lo[1] * 8) % 2^d # 0
                  IN  F32Round(A + B, hi[2] - 3, s)

\* a - b, for a >= b
F32Sub(a, b) ==
    IF b[1] = 0 THEN a
    ELSE LET d == a[2] - b[2]
             A == a[1] * 8
         IN  IF d > 27 THEN F32Round(A - 1, a[2] - 3, TRUE)
             ELSE LET B == (b[1] * 8) \div 2^d
                      s == (b[1] * 8) % 2^d # 0
                  IN  IF s THEN F32Round(A - B - 1, a[2] - 3, TRUE)
                      ELSE F32Round(A - B, a[2] - 3, FALSE)

\* a * n for a small integer constant n (n = 2 and n = 20 in the program)
F32MulInt(a, n) == F32Round(a[1] * n, a[2], FALSE)

\* floor(r * 2^n / b) continued from the quotient q, and the last remainder
RECURSIVE LongDiv(_, _, _, _)
LongDiv(q, r, b, n) ==
    IF n = 0 THEN <<q, r>>
    ELSE IF 2 * r >= b THEN LongDiv(2 * q + 1, 2 * r - b, b, n - 1)
    ELSE LongDiv(2 * q, 2 * r, b, n - 1)

\* a / b, for b > 0
F32Div(a, b) ==
    IF a[1] = 0 THEN F32Zero
    ELSE LET qr == LongDiv(a[1] \div b[1], a[1] % b[1], b[1], 25)
         IN  F32Round(qr[1], a[2] - b[2] - 25, qr[2] # 0)

\* floor of a, as far as it is below 2^31, and 2^31 - 1 from there on
F32Floor31(a) ==
    IF a[1] = 0 THEN 0
    ELSE IF a[2] >= 8 THEN 2147483647
    ELSE IF a[2] >= 0 THEN a[1] * 2^a[2]
    ELSE IF a[2] < -24 THEN 0
    ELSE a[1] \div 2^(-a[2])

----------------------------------------------------------------------------
(***************************************************************************)
(* Fixed-point units of the camera, and vectors.                           *)
(***************************************************************************)
\* angle units per degree (Camera.yaw, Camera.pitch, Camera.sensitivity)
AngleScale == 10000

\* speed units per world unit per second (Camera.speed)
SpeedScale == 200

\* length units per world unit (Camera.position, target, up)
PosScale == 12000

\* sines and cosines are held in 1/TrigScale
TrigScale == 10000

Abs(x) == IF x < 0 THEN -x ELSE x

Sign(x) == IF x < 0 THEN -1 ELSE 1

\* a / b rounded to nearest, for b > 0
RoundDiv(a, b) == Sign(a) * ((2 * Abs(a) + b) \div (2 * b))

\* a * c / d truncated toward zero, for a >= 0 and d > 0, computed without
\* leaving 32 bits
MulDiv(a, c, d) ==
    Sign(c) * ((a \div d) * Abs(c) + ((a % d) * Abs(c)) \div d)

RECURSIVE Newton(_, _)
Newton(n, x) ==
    LET y == (x + n \div x) \div 2 IN IF y >= x THEN x ELSE Newton(n, y)

\* the square root of n, rounded to nearest
ISqrt(n) ==
    IF n = 0 THEN 0
    ELSE LET r == Newton(n, n) IN IF n - r * r > r THEN r + 1 ELSE r

VAdd(u, v) == <<u[1] + v[1], u[2] + v[2], u[3] + v[3]>>

VSub(u, v) == <<u[1] - v[1], u[2] - v[2], u[3] - v[3]>>

\* v * k for a unit-scaled vector v and a length k >= 0
VScale(v, k) ==
    <<MulDiv(k, v[1], PosScale), MulDiv(k, v[2], PosScale),
      MulDiv(k, v[3], PosScale)>>

\* InnerSpace::normalize: the vector of length 1 (PosScale) along v
normalize(v) ==
    LET len == ISqrt(v[1] * v[1] + v[2] * v[2] + v[3] * v[3])
    IN  <<RoundDiv(v[1] * PosScale, len), RoundDiv(v[2] * PosScale, len),
          RoundDiv(v[3] * PosScale, len)>>

\* Vector3::cross of two unit-scaled vectors
cross(u, v) ==
    <<RoundDiv(u[2] * v[3] - u[3] * v[2], PosScale),
      RoundDiv(u[3] * v[1] - u[1] * v[3], PosScale),
      RoundDiv(u[1] * v[2] - u[2] * v[1], PosScale)>>

\* sin(k degrees) * TrigScale for k = 0..90
SinTable ==
    <<    0,   175,   349,   523,   698,   872,  1045,  1219,  1392,  1564,
       1736,  1908,  2079,  2250,  2419,  2588,  2756,  2924,  3090,  3256,
       3420,  3584,  3746,  3907,  4067,  4226,  4384,  4540,  4695,  4848,
       5000,  5150,  5299,  5446,  5592,  5736,  5878,  6018,  6157,  6293,
       6428,  6561,  6691,  6820,  6947,  7071,  7193,  7314,  7431,  7547,
       7660,  7771,  7880,  7986,  8090,  8192,  8290,  8387,  8480,  8572,
       8660,  8746,  8829,  8910,  8988,  9063,  9135,  9205,  9272,  9336,
       9397,  9455,  9511,  9563,  9613,  9659,  9703,  9744,  9781,  9816,
       9848,  9877,  9903,  9925,  9945,  9962,  9976,  9986,  9994,  9998,
      10000>>

\* sin of an angle in the first quadrant, interpolated between whole degrees
SinQ(x) ==
    LET k == x \div AngleScale
        f == x % AngleScale
    IN  IF f = 0 THEN SinTable[k + 1]
        ELSE SinTable[k + 1]
             + RoundDiv((SinTable[k + 2] - SinTable[k + 1]) * f, AngleScale)

\* f32::to_radians().sin() of an angle in degrees
Sin(a) ==
    LET r == a % (360 * AngleScale) IN
    IF r <= 90 * AngleScale THEN SinQ(r)
    ELSE IF r <= 180 * AngleScale THEN SinQ(180 * AngleScale - r)
    ELSE IF r <= 270 * AngleScale THEN -SinQ(r - 180 * AngleScale)
    ELSE -SinQ(360 * AngleScale - r)

\* f32::to_radians().cos() of an angle in degrees
Cos(a) == Sin(a + 90 * AngleScale)

\* f32::clamp
clamp(x, lo, hi) == IF x < lo THEN lo ELSE IF x > hi THEN hi ELSE x

----------------------------------------------------------------------------
(***************************************************************************)
(* camera.rs                                                               *)
(***************************************************************************)
DefaultPosition == <<0, 0, -3 * PosScale>>

DefaultYaw == 90 * AngleScale

DefaultSpeed == 2 * SpeedScale

Camera_new(aspect) ==
    [position    |-> DefaultPosition,
     target      |-> <<0, 0, 0>>,
     up          |-> <<0, PosScale, 0>>,
     aspect      |-> aspect,
     fovy        |-> 45,
     znear       |-> <<1, 10>>,
     zfar        |-> 100,
     speed       |-> DefaultSpeed,
     sensitivity |-> (2 * AngleScale) \div 1000,
     yaw         |-> DefaultYaw,
     pitch       |-> 0]

\* the arguments of Matrix4::look_at_rh and of perspective
build_view_projection_matrix(cam) ==
    <<[eye |-> cam.position, target |-> cam.target, up |-> cam.up],
      [fovy |-> cam.fovy, aspect |-> cam.aspect, znear |-> cam.znear,
       zfar |-> cam.zfar]>>

front(yaw, pitch) ==
    normalize(<<RoundDiv(Cos(yaw) * Cos(pitch), TrigScale),
                Sin(pitch),
                RoundDiv(Sin(yaw) * Cos(pitch), TrigScale)>>)

update_target_skipped(cam) == cam

update_target(cam) ==
    [cam EXCEPT !.target = VAdd(cam.position, front(cam.yaw, cam.pitch))]

reset_without_speed(cam) ==
    [cam EXCEPT !.position = DefaultPosition, !.yaw = DefaultYaw, !.pitch = 0]

reset(cam) ==
    [cam EXCEPT !.position = DefaultPosition, !.yaw = DefaultYaw, !.pitch = 0,
                !.speed = DefaultSpeed]

----------------------------------------------------------------------------
(***************************************************************************)
(* uniforms.rs                                                             *)
(***************************************************************************)
Identity == "Matrix4::from_scale(1.0)"

F32Eight == <<8388608, -20>>

F32Twenty == <<10485760, -19>>

Uniforms_new ==
    [view_matrix        |-> Identity,
     projection_matrix  |-> Identity,
     time               |-> F32Zero,
     fractal_power      |-> F32Eight,
     fractal_iterations |-> 64,
     fractal_type       |-> 0,
     camera_pos         |-> DefaultPosition]

get_fractal_name(u) ==
    CASE u.fractal_type = 0  -> "Mandelbulb"
      [] u.fractal_type = 1  -> "Julia Set"
      [] u.fractal_type = 2  -> "Menger Sponge"
      [] u.fractal_type = 3  -> "Kleinian"
      [] u.fractal_type = 4  -> "Apollonian"
      [] u.fractal_type = 5  -> "Mandelbox"
      [] u.fractal_type = 99 -> "Auto-cycle"
      [] OTHER               -> "Unknown"

----------------------------------------------------------------------------
(***************************************************************************)
(* Machine integers and Duration.                                          *)
(***************************************************************************)
\* a u32 as two 16-bit limbs <<high, low>>
U32FromInt(n) == <<n \div 65536, n % 65536>>

U32Max == <<65535, 65535>>

\* `x as u32` of a non-negative f32: truncation, saturating at u32::MAX
F32ToU32(a) ==
    IF a[1] = 0 \/ a[2] < -24 THEN <<0, 0>>
    ELSE IF a[2] < 0 THEN U32FromInt(a[1] \div 2^(-a[2]))
    ELSE IF a[2] > 8 THEN U32Max
    ELSE <<a[1] \div 2^(16 - a[2]), (a[1] % 2^(16 - a[2])) * 2^a[2]>>

\* `x as i32` of a non-negative f32: truncation, saturating at i32::MAX
F32ToI32(a) == F32Floor31(a)

\* a + b in 32 bits: the wrapped sum and whether it overflowed
U32Add(a, b) ==
    LET lo == a[2] + b[2]
        hi == a[1] + b[1] + lo \div 65536
    IN  [value |-> <<hi % 65536, lo % 65536>>, overflow |-> hi >= 65536]

\* u32::min with a bound below 2^16, as an integer
U32Min(a, n) == IF a[1] > 0 \/ a[2] > n THEN n ELSE a[2]

NanosPerSec == 1000000000

\* Duration::as_secs_f32
as_secs_f32(d) ==
    F32Add(F32FromInt(d.secs),
           F32Div(F32FromInt(d.nanos), F32FromInt(NanosPerSec)))

----------------------------------------------------------------------------
(***************************************************************************)
(* input.rs                                                                *)
(***************************************************************************)
\* the grab mode a Tab key-down asks for, given the toggled flag
grab_mode(captured) == IF captured THEN "Confined" ELSE "None"

capture_kept_on_error(captured, result) == captured

\* the capture flag after set_cursor_grab returned `result`
capture_after_grab(captured, result) ==
    IF result = "Err" THEN FALSE ELSE captured

get_mouse_delta_from_origin(captured, last, position) ==
    IF captured THEN position ELSE <<0, 0>>

get_mouse_delta(captured, last, position) ==
    IF captured THEN <<position[1] - last[1], position[2] - last[2]>>
    ELSE <<0, 0>>

base_speed_whole_seconds(speed, d) == speed * (PosScale \div SpeedScale) * d.secs

\* camera.speed * dt, in length units
base_speed(speed, d) ==
    LET a  == speed * (PosScale \div SpeedScale)
        ms == d.nanos \div 1000000
        us == (d.nanos \div 1000) % 1000
        ns == d.nanos % 1000
        q1 == (a * ns) \div 1000
        q2 == (a * us + q1) \div 1000
    IN  a * d.secs + (a * ms + q2) \div 1000

movement_speed_shift_first(keys, base) ==
    IF "ShiftLeft" \in keys /\ "Space" \notin keys THEN base * 3
    ELSE IF "ControlLeft" \in keys THEN base \div 10
    ELSE base

movement_speed(keys, base) ==
    IF "ControlLeft" \in keys THEN base \div 10
    ELSE IF "ShiftLeft" \in keys /\ "Space" \notin keys THEN base * 3
    ELSE base

vertical_speed(keys, base, movement) ==
    IF "ShiftLeft" \in keys THEN base \div 2 ELSE movement

\* `position += v` under `if pressed`
add_if(pressed, p, v) == IF pressed THEN VAdd(p, v) ELSE p

\* `position -= v` under `if pressed`
sub_if(pressed, p, v) == IF pressed THEN VSub(p, v) ELSE p

update_camera_reset_first(cam, keys, d) ==
    LET start   == IF "KeyR" \in keys THEN reset(cam) ELSE cam
        forward == normalize(VSub(start.target, start.position))
    IN  [start EXCEPT !.position =
            add_if("KeyW" \in keys, start.position,
                   VScale(forward, base_speed(start.speed, d)))]

\* Camera after update_camera for a frame of duration d
update_camera(cam, keys, d) ==
    LET base     == base_speed(cam.speed, d)
        movement == movement_speed(keys, base)
        forward  == normalize(VSub(cam.target, cam.position))
        right    == normalize(cross(forward, cam.up))
        fwd      == VScale(forward, movement)
        rgt      == VScale(right, movement)
        p1 == add_if("KeyW" \in keys, cam.position, fwd)
        p2 == sub_if("KeyS" \in keys, p1, fwd)
        p3 == sub_if("KeyA" \in keys, p2, rgt)
        p4 == add_if("KeyD" \in keys, p3, rgt)
        p5 == add_if("Space" \in keys, p4,
                     VScale(cam.up, vertical_speed(keys, base, movement)))
        p6 == sub_if("KeyC" \in keys, p5, VScale(cam.up, movement))
        p7 == add_if("ArrowUp" \in keys, p6, fwd)
        p8 == sub_if("ArrowDown" \in keys, p7, fwd)
        p9 == sub_if("ArrowLeft" \in keys, p8, rgt)
        p10 == add_if("ArrowRight" \in keys, p9, rgt)
        moved == [cam EXCEPT !.position = p10]
    IN  IF "KeyR" \in keys THEN reset(moved) ELSE moved

power_down(power, dt) ==
    LET step == F32MulInt(dt, 2)
    IN  IF F32Le(power, step) THEN F32One
        ELSE F32Max(F32Sub(power, step), F32One)

power_up(power, dt) == F32Min(F32Add(power, F32MulInt(dt, 2)), F32Twenty)

iterations_down(iterations, dt) ==
    LET r == iterations - F32ToI32(F32MulInt(dt, 20))
    IN  IF r < 8 THEN 8 ELSE r

\* the u32 sum of line 218, before min(256)
iterations_sum(iterations, dt) ==
    U32Add(U32FromInt(iterations), F32ToU32(F32MulInt(dt, 20)))

iterations_up(iterations, dt) == U32Min(iterations_sum(iterations, dt).value, 256)

fractal_select_first_wins(type, keys) ==
    LET t0 == IF "Digit0" \in keys THEN 99 ELSE type
        t6 == IF "Digit6" \in keys THEN 5 ELSE t0
        t5 == IF "Digit5" \in keys THEN 4 ELSE t6
        t4 == IF "Digit4" \in keys THEN 3 ELSE t5
        t3 == IF "Digit3" \in keys THEN 2 ELSE t4
        t2 == IF "Digit2" \in keys THEN 1 ELSE t3
    IN  IF "Digit1" \in keys THEN 0 ELSE t2

fractal_select(type, keys) ==
    LET t1 == IF "Digit1" \in keys THEN 0 ELSE type
        t2 == IF "Digit2" \in keys THEN 1 ELSE t1
        t3 == IF "Digit3" \in keys THEN 2 ELSE t2
        t4 == IF "Digit4" \in keys THEN 3 ELSE t3
        t5 == IF "Digit5" \in keys THEN 4 ELSE t4
        t6 == IF "Digit6" \in keys THEN 5 ELSE t5
    IN  IF "Digit0" \in keys THEN 99 ELSE t6

\* fractal_iterations when line 218 is reached
iterations_before_up(u, keys, dt) ==
    IF "KeyZ" \in keys THEN iterations_down(u.fractal_iterations, dt)
    ELSE u.fractal_iterations

\* the u32 addition of line 218 overflows
update_uniforms_overflows(u, keys, dt) ==
    /\ "KeyX" \in keys
    /\ iterations_sum(iterations_before_up(u, keys, dt), dt).overflow

\* update_uniforms where the addition wraps (overflow checks off)
update_uniforms(u, keys, dt) ==
    LET w1 == IF "KeyQ" \in keys THEN power_down(u.fractal_power, dt)
              ELSE u.fractal_power
        w2 == IF "KeyE" \in keys THEN power_up(w1, dt) ELSE w1
        i1 == iterations_before_up(u, keys, dt)
        i2 == IF "KeyX" \in keys THEN iterations_up(i1, dt) ELSE i1
    IN  [u EXCEPT !.fractal_power = w2, !.fractal_iterations = i2,
                  !.fractal_type = fractal_select(u.fractal_type, keys)]

pitch_unclamped(pitch) == pitch

pitch_clamp(pitch) == clamp(pitch, -89 * AngleScale, 89 * AngleScale)

\* Camera after update_mouse_look
update_mouse_look(cam, captured, right_pressed, last, position) ==
    IF captured THEN
        LET delta == get_mouse_delta(captured, last, position)
            sensitivity == IF right_pressed THEN (cam.sensitivity * 3) \div 10
                           ELSE cam.sensitivity
        IN  update_target(
                [cam EXCEPT !.yaw = cam.yaw + delta[1] * sensitivity,
                            !.pitch = pitch_clamp(cam.pitch - delta[2] * sensitivity)])
    ELSE cam

\* scroll_amount * 0.5, in speed units
scroll_step(delta) ==
    IF delta.kind = "LineDelta" THEN (delta.y * SpeedScale) \div 4
    ELSE (delta.y * SpeedScale) \div 200

speed_unclamped(speed, step) == speed + step

speed_after_scroll(speed, step) ==
    clamp(speed + step, SpeedScale \div 10, 20 * SpeedScale)

handle_mouse_scroll(cam, delta) ==
    [cam EXCEPT !.speed = speed_after_scroll(cam.speed, scroll_step(delta))]

----------------------------------------------------------------------------
(***************************************************************************)
(* app.rs and the event closure of main.rs                                 *)
(***************************************************************************)
\* the window's inner size when the Renderer is created
InitialSize == <<1024, 768>>

aspect_of(size) == F32Div(F32FromInt(size[1]), F32FromInt(size[2]))

\* the snapshot's fields that app.rs copies from the camera
with_camera_pos_stale(u, cam) ==
    [u EXCEPT !.view_matrix = build_view_projection_matrix(cam)[1],
              !.projection_matrix = build_view_projection_matrix(cam)[2]]

with_camera(u, cam) ==
    [u EXCEPT !.view_matrix = build_view_projection_matrix(cam)[1],
              !.projection_matrix = build_view_projection_matrix(cam)[2],
              !.camera_pos = cam.position]

Call(name, arg, result) == [call |-> name, arg |-> arg, result |-> result]

NoEvent == [type |-> "None"]

Init ==
    /\ keys_pressed = {}
    /\ left_mouse_pressed = FALSE
    /\ right_mouse_pressed = FALSE
    /\ middle_mouse_pressed = FALSE
    /\ last_mouse_pos = <<0, 0>>
    /\ mouse_captured = FALSE
    /\ camera = Camera_new(aspect_of(InitialSize))
    /\ uniforms = with_camera(Uniforms_new, Camera_new(aspect_of(InitialSize)))
    /\ frame_count = 0
    /\ fps_update_timer = F32Zero
    /\ current_fps = F32Zero
    /\ cursor_grab = "None"
    /\ cursor_visible = TRUE
    /\ renderer_size = InitialSize
    /\ gpu_uniforms = Uniforms_new
    /\ exited = FALSE
    /\ panicked = FALSE
    /\ event = NoEvent
    /\ calls = <<>>

\* the return value of RayMarchingApp::input (and of handle_event)
input(ev) ==
    ev.type \in {"MouseWheel", "CursorMoved", "KeyboardInput", "MouseInput"}

should_exit(ev) ==
    \/ ev.type = "CloseRequested"
    \/ ev.type = "KeyboardInput" /\ ev.state = "Pressed" /\ ev.keycode = "Escape"

\* the closure reaches `control_flow.exit()` through should_exit
exits(ev) == ~input(ev) /\ should_exit(ev)

\* Window::set_cursor_grab: the grab mode in effect after the request
cursor_grab_after(current, mode, result) ==
    IF result = "Ok" THEN mode ELSE current

Running == ~exited /\ ~panicked

\* bounds of the exploration
MaxYaw == 360

MaxFrames == 64

MaxTime == 1

MaxPos == 6

ExitCalls(ev) ==
    IF exits(ev) THEN <<Call("control_flow.exit", "", "")>> ELSE <<>>

\* the loop control after an event that is not a redraw
Dispatched(ev) ==
    /\ event' = ev
    /\ exited' = exits(ev)
    /\ UNCHANGED panicked

\* WindowEvent::KeyboardInput; `result` is what set_cursor_grab returns
OnKeyboardInput(keycode, state, result) ==
    LET ev == [type |-> "KeyboardInput", keycode |-> keycode, state |-> state]
        toggled == ~mouse_captured
        captured == capture_after_grab(toggled, result)
    IN
    /\ Running
    /\ keys_pressed' = IF state = "Pressed" THEN keys_pressed \cup {keycode}
                       ELSE keys_pressed \ {keycode}
    /\ IF state = "Pressed" /\ keycode = "Tab" THEN
            /\ mouse_captured' = captured
            /\ cursor_grab' = cursor_grab_after(cursor_grab, grab_mode(toggled), result)
            /\ cursor_visible' = ~captured
            /\ calls' = <<Call("set_cursor_grab", grab_mode(toggled), result),
                          Call("set_cursor_visible", ~captured, "")>>
                        \o ExitCalls(ev)
       ELSE /\ result = "Ok"
            /\ UNCHANGED <<mouse_captured, cursor_grab, cursor_visible>>
            /\ calls' = (IF state = "Pressed" /\ keycode = "KeyF"
                         THEN <<Call("println", get_fractal_name(uniforms), "")>>
                         ELSE <<>>) \o ExitCalls(ev)
    /\ Dispatched(ev)
    /\ UNCHANGED <<left_mouse_pressed, right_mouse_pressed, middle_mouse_pressed,
                   last_mouse_pos, camera, uniforms, appVars, rendererVars>>

\* WindowEvent::MouseInput
OnMouseInput(button, state, result) ==
    LET ev == [type |-> "MouseInput", button |-> button, state |-> state]
        pressed == state = "Pressed"
        captured == capture_after_grab(TRUE, result)
    IN
    /\ Running
    /\ left_mouse_pressed' = IF button = "Left" THEN pressed ELSE left_mouse_pressed
    /\ right_mouse_pressed' = IF button = "Right" THEN pressed ELSE right_mouse_pressed
    /\ middle_mouse_pressed' = IF button = "Middle" THEN pressed
                               ELSE middle_mouse_pressed
    /\ IF button = "Left" /\ pressed /\ ~mouse_captured THEN
            /\ mouse_captured' = captured
            /\ cursor_grab' = cursor_grab_after(cursor_grab, "Confined", result)
            /\ cursor_visible' = ~captured
            /\ calls' = <<Call("set_cursor_grab", "Confined", result),
                          Call("set_cursor_visible", ~captured, "")>>
       ELSE /\ result = "Ok"
            /\ UNCHANGED <<mouse_captured, cursor_grab, cursor_visible>>
            /\ calls' = <<>>
    /\ Dispatched(ev)
    /\ UNCHANGED <<keys_pressed, last_mouse_pos, camera, uniforms, appVars,
                   rendererVars>>

\* WindowEvent::MouseWheel
OnMouseWheel(delta) ==
    /\ Running
    /\ camera' = handle_mouse_scroll(camera, delta)
    /\ calls' = <<>>
    /\ Dispatched([type |-> "MouseWheel", delta |-> delta])
    /\ UNCHANGED <<inputVars, uniforms, appVars, windowVars, rendererVars>>

\* WindowEvent::CursorMoved
OnCursorMoved(position) ==
    /\ Running
    /\ camera' = update_mouse_look(camera, mouse_captured, right_mouse_pressed,
                                   last_mouse_pos, position)
    /\ Abs(camera'.yaw) <= MaxYaw * AngleScale
    /\ last_mouse_pos' = position
    /\ calls' = <<>>
    /\ Dispatched([type |-> "CursorMoved", position |-> position])
    /\ UNCHANGED <<keys_pressed, left_mouse_pressed, right_mouse_pressed,
                   middle_mouse_pressed, mouse_captured, uniforms, appVars,
                   windowVars, rendererVars>>

\* WindowEvent::CloseRequested
OnCloseRequested ==
    /\ Running
    /\ calls' = ExitCalls([type |-> "CloseRequested"])
    /\ Dispatched([type |-> "CloseRequested"])
    /\ UNCHANGED <<inputVars, camera, uniforms, appVars, windowVars, rendererVars>>

resize_without_aspect(cam, size, new_size) ==
    IF new_size[1] > 0 /\ new_size[2] > 0
    THEN [camera |-> cam,
          size   |-> new_size,
          calls  |-> <<Call("renderer.resize", new_size, "")>>]
    ELSE [camera |-> cam, size |-> size, calls |-> <<>>]

\* RayMarchingApp::resize: the camera, the Renderer's size and the call made
resize(cam, size, new_size) ==
    IF new_size[1] > 0 /\ new_size[2] > 0
    THEN [camera |-> [cam EXCEPT !.aspect = aspect_of(new_size)],
          size   |-> new_size,
          calls  |-> <<Call("renderer.resize", new_size, "")>>]
    ELSE [camera |-> cam, size |-> size, calls |-> <<>>]

\* WindowEvent::Resized
OnResized(new_size) ==
    LET r == resize(camera, renderer_size, new_size) IN
    /\ Running
    /\ camera' = r.camera
    /\ renderer_size' = r.size
    /\ calls' = r.calls
    /\ Dispatched([type |-> "Resized", size |-> new_size])
    /\ UNCHANGED <<inputVars, uniforms, appVars, windowVars, gpu_uniforms>>

fps_window_closed_late(timer) == ~F32Le(timer, F32One)

\* line 86: fps_update_timer >= 1.0
fps_window_closed(timer) == F32Le(F32One, timer)

\* lines 83-90: frame_count, fps_update_timer and current_fps after a frame
fps_update(count, timer, fps, dt) ==
    LET c == count + 1
        t == F32Add(timer, dt)
    IN  IF fps_window_closed(t)
        THEN [frame_count |-> 0, fps_update_timer |-> F32Zero,
              current_fps |-> F32Div(F32FromInt(c), t)]
        ELSE [frame_count |-> c, fps_update_timer |-> t, current_fps |-> fps]

\* lines 92-104: the camera and the snapshot after a frame of duration d
update_camera_and_target(cam, keys, d) == update_target(update_camera(cam, keys, d))

update_snapshot(u, cam, keys, dt) ==
    LET n == with_camera(update_uniforms(u, keys, dt), cam)
    IN  [n EXCEPT !.time = F32Add(n.time, dt)]

\* the frames the exploration follows: the state before the frame is in range
WithinBounds(cam, u, count) ==
    /\ count < MaxFrames
    /\ F32Le(u.time, F32FromInt(MaxTime))
    /\ \A i \in 1..3 : Abs(cam.position[i]) <= MaxPos * PosScale

\* what the u32 addition of line 218 does in this frame: nothing special, or,
\* on overflow, a panic (overflow checks on) or a wrapped sum (checks off)
OverflowOutcomes(u, keys, dt) ==
    IF update_uniforms_overflows(u, keys, dt) THEN {"panic", "wrap"} ELSE {"none"}

render_exits_on_error(result) == result # "Ok"

\* the match on render()'s result reaches `control_flow.exit()`
render_exits(result) == result = "OutOfMemory"

\* WindowEvent::RedrawRequested: update(), render() and the match on its result
OnRedrawRequested(d, result) ==
    LET ev  == [type |-> "RedrawRequested", dt |-> d, render |-> result]
        dt  == as_secs_f32(d)
        fps == fps_update(frame_count, fps_update_timer, current_fps, dt)
        cam == update_camera_and_target(camera, keys_pressed, d)
        u   == update_snapshot(uniforms, cam, keys_pressed, dt)
        r   == resize(cam, renderer_size, renderer_size)
    IN
    /\ Running
    /\ WithinBounds(camera, uniforms, frame_count)
    /\ event' = ev
    /\ UNCHANGED <<inputVars, windowVars>>
    /\ \E outcome \in OverflowOutcomes(uniforms, keys_pressed, dt) :
        IF outcome = "panic"
        THEN \* `attempt to add with overflow`: the process aborts inside update()
             /\ panicked' = TRUE
             /\ calls' = <<>>
             /\ UNCHANGED <<camera, uniforms, appVars, rendererVars, exited>>
        ELSE /\ panicked' = FALSE
             /\ frame_count' = fps.frame_count
             /\ fps_update_timer' = fps.fps_update_timer
             /\ current_fps' = fps.current_fps
             /\ uniforms' = u
             /\ gpu_uniforms' = u
             /\ camera' = IF result = "Lost" THEN r.camera ELSE cam
             /\ renderer_size' = IF result = "Lost" THEN r.size ELSE renderer_size
             /\ exited' = render_exits(result)
             /\ calls' = <<Call("renderer.update_uniforms", "", ""),
                           Call("renderer.render", "", result)>>
                         \o (CASE result = "Ok" -> <<>>
                               [] result = "Lost" -> r.calls
                               [] render_exits(result) ->
                                     <<Call("control_flow.exit", "", "")>>
                               [] OTHER -> <<Call("eprintln", result, "")>>)

\* Event::AboutToWait
OnAboutToWait ==
    /\ Running
    /\ event' = [type |-> "AboutToWait"]
    /\ calls' = <<Call("request_redraw", "", "")>>
    /\ UNCHANGED <<inputVars, camera, uniforms, appVars, windowVars,
                   rendererVars, exited, panicked>>

----------------------------------------------------------------------------
(***************************************************************************)
(* Inputs of the explorations.                                             *)
(***************************************************************************)
KeyStates == {"Pressed", "Released"}

GrabResults == {"Ok", "Err"}

MouseButtons == {"Left", "Right", "Middle"}

Seconds(n) == [secs |-> n, nanos |-> 0]

Nanos(n) == [secs |-> 0, nanos |-> n]

\* a frame of 1/60 s, as Instant measures it
Frame60 == Nanos(16666667)

----------------------------------------------------------------------------
(***************************************************************************)
(* Spec: the event loop with the capture toggle, the exit paths and the    *)
(* pointer.                                                                *)
(***************************************************************************)
CaptureKeys == {"Tab", "Escape", "KeyF"}

CapturePositions == {<<0, 0>>, <<0, 89000>>}

Next ==
    \/ \E k \in CaptureKeys, st \in KeyStates, res \in GrabResults :
          OnKeyboardInput(k, st, res)
    \/ \E b \in MouseButtons, st \in KeyStates, res \in GrabResults :
          OnMouseInput(b, st, res)
    \/ \E pos \in CapturePositions : OnCursorMoved(pos)
    \/ OnCloseRequested
    \/ OnAboutToWait

Spec == Init /\ [][Next]_vars

----------------------------------------------------------------------------
(***************************************************************************)
(* Claims C1 - C3, checked under Spec.                                     *)
(***************************************************************************)
GrabRequested ==
    Len(calls) >= 2 /\ calls[1].call = "set_cursor_grab"

GrabFailed == GrabRequested /\ calls[1].result = "Err"

\* C1: every window-close request and every Escape key-down delivered to the
\* application makes the loop exit while that event is handled.
C1_ExitOnCloseOrEscape ==
    (\/ event.type = "CloseRequested"
     \/ /\ event.type = "KeyboardInput"
        /\ event.state = "Pressed"
        /\ event.keycode = "Escape")
    => exited

\* C2: when a Tab key-down or a primary-button-down issues a pointer grab
\* request and the request fails, then after the event pointerCaptured is false,
\* the cursor-visibility call of that event sets the cursor visible, and the
\* failure is not propagated: the loop goes on.
C2_GrabFailureAbsorbed ==
    GrabFailed =>
        /\ ~mouse_captured
        /\ calls[2].call = "set_cursor_visible" /\ calls[2].arg = TRUE
        /\ cursor_visible
        /\ Running

\* a Tab key-down whose grab request failed, with the primary button down
C2_Witness ==
    /\ GrabFailed
    /\ event.type = "KeyboardInput" /\ event.keycode = "Tab"
    /\ calls[1].arg = "Confined"
    /\ left_mouse_pressed

\* C3: between events pointerCaptured is true exactly when the OS pointer grab
\* is in effect, and the cursor is hidden exactly when pointerCaptured is true,
\* whichever grab or release requests fail.
C3_CaptureConsistent ==
    /\ mouse_captured <=> cursor_grab = "Confined"
    /\ ~cursor_visible <=> mouse_captured

----------------------------------------------------------------------------
(***************************************************************************)
(* SpecLook: pointer look with capture toggles, the secondary button,      *)
(* frames and resets.                                                      *)
(***************************************************************************)
LookPositions == {<<0, 0>>, <<0, 44500>>, <<0, 8900000>>}

NextLook ==
    \/ OnKeyboardInput("Tab", "Pressed", "Ok")
    \/ \E st \in KeyStates : OnKeyboardInput("KeyR", st, "Ok")
    \/ \E st \in KeyStates : OnMouseInput("Right", st, "Ok")
    \/ \E pos \in LookPositions : OnCursorMoved(pos)
    \/ OnRedrawRequested(Seconds(2), "Ok")

SpecLook == Init /\ [][NextLook]_vars

\* C4: after any sequence of pointer moves (captured or not, of any size, with
\* or without the secondary button), key events, frames and resets,
\* Camera.pitch is within [-89, 89] degrees.
C4_PitchBound ==
    /\ camera.pitch >= -89 * AngleScale
    /\ camera.pitch <= 89 * AngleScale

\* a pointer move far larger than the range, with the secondary button held,
\* that left the pitch on the lower bound
C4_Witness ==
    /\ event.type = "CursorMoved"
    /\ event.position = <<0, 8900000>>
    /\ mouse_captured /\ right_mouse_pressed
    /\ camera.pitch = -89 * AngleScale

-----------------------------------------------------------------------------
(***************************************************************************)
(* SpecScroll: wheel events in lines and in pixels, of either sign and of  *)
(* sizes below and far above the speed range, with frames and resets.      *)
(***************************************************************************)
LineDelta(y) == [kind |-> "LineDelta", y |-> y]

PixelDelta(y) == [kind |-> "PixelDelta", y |-> y]

ScrollDeltas ==
    {LineDelta(1), LineDelta(-1), LineDelta(1000000), LineDelta(-1000000),
     PixelDelta(30), PixelDelta(-30), PixelDelta(1000000), PixelDelta(-1000000)}

NextScroll ==
    \/ \E delta \in ScrollDeltas : OnMouseWheel(delta)
    \/ \E st \in KeyStates : OnKeyboardInput("KeyR", st, "Ok")
    \/ OnRedrawRequested(Seconds(2), "Ok")

SpecScroll == Init /\ [][NextScroll]_vars

\* scrollAmount in hundredths: delta.y * 0.5 for lines, delta.y * 0.01 for pixels
C5_ScrollAmount(delta) ==
    IF delta.kind = "LineDelta" THEN delta.y * 50 ELSE delta.y

\* scrollAmount * 0.5, in speed units
C5_Change(delta) ==
    LET amount == C5_ScrollAmount(delta)
    IN  (amount \div 100) * (SpeedScale \div 2)
        + ((amount % 100) * (SpeedScale \div 2)) \div 100

\* C5: after any sequence of scroll events (lines or pixels, of either sign and
\* any size), frames and resets, Camera.speed is within [0.1, 20.0], and each
\* scroll event sets the speed to the old speed plus scrollAmount * 0.5, clamped
\* to that range.
C5_SpeedBound ==
    /\ [](/\ camera.speed >= SpeedScale \div 10
          /\ camera.speed <= 20 * SpeedScale)
    /\ [][event'.type = "MouseWheel" =>
            camera'.speed =
                clamp(camera.speed + C5_Change(event'.delta),
                      SpeedScale \div 10, 20 * SpeedScale)]_vars

\* a scroll of a million lines that left the speed on the upper bound
C5_Witness ==
    /\ event.type = "MouseWheel"
    /\ event.delta = LineDelta(1000000)
    /\ camera.speed = 20 * SpeedScale

-----------------------------------------------------------------------------
(***************************************************************************)
(* SpecParams: frames of a second and of a stall long enough for dt * 20.0 *)
(* to pass u32::MAX, with the power and iteration keys held in every       *)
(* combination.                                                            *)
(***************************************************************************)
ParamKeys == {"KeyQ", "KeyE", "KeyZ", "KeyX"}

\* the shortest whole number of seconds with dt * 20.0 >= 2^32
StallSeconds == 214748365

ParamFrames == {Seconds(1), Seconds(StallSeconds)}

NextParams ==
    \/ \E k \in ParamKeys, st \in KeyStates : OnKeyboardInput(k, st, "Ok")
    \/ \E d \in ParamFrames : OnRedrawRequested(d, "Ok")

SpecParams == Init /\ [][NextParams]_vars

\* C6: after any sequence of frames with any non-negative dt and any
\* combination of the Q/E and Z/X keys held, fractal_power is within [1, 20],
\* fractal_iterations is within [8, 256], and no integer overflow occurred in
\* computing them.
C6_ParameterBounds ==
    /\ ~panicked
    /\ F32Le(F32One, uniforms.fractal_power)
    /\ F32Le(uniforms.fractal_power, F32Twenty)
    /\ uniforms.fractal_iterations >= 8
    /\ uniforms.fractal_iterations <= 256

-----------------------------------------------------------------------------
(***************************************************************************)
(* SpecMove: a long frame with the modifier keys (Ctrl, Shift), the up and  *)
(* down keys and a forward and a strafe key held in every combination.     *)
(***************************************************************************)
MoveKeys == {"ControlLeft", "ShiftLeft", "Space", "KeyC", "KeyW", "KeyD"}

\* seconds of the frame
MoveSeconds == 4

NextMove ==
    \/ \E k \in MoveKeys, st \in KeyStates : OnKeyboardInput(k, st, "Ok")
    \/ OnRedrawRequested(Seconds(MoveSeconds), "Ok")

SpecMove == Init /\ [][NextMove]_vars

\* the movement multiplier, in tenths: 0.1 with Ctrl, else 3 with Shift and
\* without the up-key, else 1
C7_Multiplier(keys) ==
    IF "ControlLeft" \in keys THEN 1
    ELSE IF "ShiftLeft" \in keys /\ "Space" \notin keys THEN 30
    ELSE 10

\* moveSpeed of the frame just handled: speed * dt times the multiplier
C7_MoveSpeed ==
    (base_speed(camera.speed, event'.dt) * C7_Multiplier(keys_pressed)) \div 10

\* the displacement along the forward, strafe and down keys at moveSpeed
C7_Expected ==
    LET forward == normalize(VSub(camera.target, camera.position))
        right   == normalize(cross(forward, camera.up))
        f == IF "KeyW" \in keys_pressed THEN VScale(forward, C7_MoveSpeed)
             ELSE <<0, 0, 0>>
        r == IF "KeyD" \in keys_pressed THEN VScale(right, C7_MoveSpeed)
             ELSE <<0, 0, 0>>
        d == IF "KeyC" \in keys_pressed THEN VScale(camera.up, C7_MoveSpeed)
             ELSE <<0, 0, 0>>
    IN  VSub(VAdd(f, r), d)

\* the displacement of the frame just handled along the up-key
C7_Up ==
    IF "Space" \in keys_pressed
    THEN VSub(VSub(camera'.position, camera.position), C7_Expected)
    ELSE <<0, 0, 0>>

\* C7: in every frame the multiplier is 0.1 if Ctrl is held (also with Shift),
\* otherwise 3 if Shift is held and the up-key is not, otherwise 1, and the
\* forward, strafe and down keys move the camera by exactly speed * dt times
\* this multiplier, for every combination of held keys.
C7_ModifierPrecedence ==
    [][event'.type = "RedrawRequested" =>
          /\ VSub(camera'.position, camera.position) = VAdd(C7_Expected, C7_Up)
          /\ C7_Up[1] = 0 /\ C7_Up[3] = 0]_vars

\* a frame with Ctrl, Shift and the forward key held, from the start pose: the
\* camera advanced by a tenth of speed * dt
C7_Witness ==
    /\ event.type = "RedrawRequested"
    /\ keys_pressed = {"ControlLeft", "ShiftLeft", "KeyW"}
    /\ uniforms.time = F32FromInt(MoveSeconds)
    /\ camera.position =
         VAdd(DefaultPosition,
              <<0, 0, (MoveSeconds * DefaultSpeed * PosScale) \div (10 * SpeedScale)>>)

\* verticalSpeed of the frame just handled: moveSpeed, halved with Shift held
C8_VerticalSpeed ==
    IF "ShiftLeft" \in keys_pressed THEN C7_MoveSpeed \div 2 ELSE C7_MoveSpeed

\* C8: in a frame where the up-key is held the upward displacement is
\* up * verticalSpeed, where verticalSpeed is that frame's moveSpeed without
\* Shift and half of that frame's moveSpeed with Shift, for every combination
\* of Ctrl and Shift.
C8_VerticalSpeedRule ==
    [][event'.type = "RedrawRequested" /\ "Space" \in keys_pressed =>
          C7_Up = VScale(camera.up, C8_VerticalSpeed)]_vars

-----------------------------------------------------------------------------
(***************************************************************************)
(* SpecFps: frames of 1/60 s and of a whole second.                        *)
(***************************************************************************)
FpsFrames == {Frame60, Seconds(1)}

NextFps == \E d \in FpsFrames : OnRedrawRequested(d, "Ok")

SpecFps == Init /\ [][NextFps]_vars

\* fps_update_timer after n frames of 1/60 s from a fresh window, none of which
\* closed it
RECURSIVE C9_Accumulate(_, _)
C9_Accumulate(timer, n) ==
    IF n = 0 \/ ~F32IsValue(timer) THEN timer
    ELSE C9_Accumulate(F32Add(timer, as_secs_f32(Frame60)), n - 1)

C9_Sum(n) == C9_Accumulate(F32Zero, n)

\* timer < 1.0
C9_Open(timer) == ~F32Le(F32One, timer)

\* the frame just handled counted itself and added dt to the timer; with the
\* timer then >= 1.0 it set fps to frameCount / timer and reset both, otherwise
\* it kept fps
C9_Tick ==
    LET c == frame_count + 1
        t == F32Add(fps_update_timer, as_secs_f32(event'.dt))
    IN  IF C9_Open(t)
        THEN /\ frame_count' = c
             /\ fps_update_timer' = t
             /\ current_fps' = current_fps
        ELSE /\ frame_count' = 0
             /\ fps_update_timer' = F32Zero
             /\ current_fps' = F32Div(F32FromInt(c), t)

\* the frame just handled was the n-th of n frames of 1/60 s from a fresh window
C9_Nth(n) ==
    /\ event'.dt = Frame60
    /\ frame_count = n - 1
    /\ fps_update_timer = C9_Sum(n - 1)

\* the frame just handled closed the window with fps = 60, within 1
C9_Closed ==
    /\ frame_count' = 0
    /\ fps_update_timer' = F32Zero
    /\ F32Le(F32FromInt(59), current_fps')
    /\ F32Le(current_fps', F32FromInt(61))

\* C9 as stated: every frame follows the window rule, the timer is below 1.0
\* after every frame, and the 60th frame of 1/60 s from a fresh window closes
\* the window with fps = 60 and counter and timer at 0.
C9_SixtyFramesClose ==
    /\ [] C9_Open(fps_update_timer)
    /\ [][event'.type = "RedrawRequested" =>
            /\ C9_Tick
            /\ C9_Nth(60) => C9_Closed]_vars

\* C9: every frame follows the window rule and the timer is below 1.0 after
\* every frame; 60 frames of 1/60 s from a fresh window add up to less than 1.0
\* in f32, so the 60th leaves the window open with the counter at 60 and fps
\* kept, and the 61st closes it with fps = 61 / timer (60, within 1) and
\* counter and timer at 0.
C9_FpsWindow ==
    /\ [] C9_Open(fps_update_timer)
    /\ [][event'.type = "RedrawRequested" =>
            /\ C9_Tick
            /\ C9_Nth(60) =>
                  /\ frame_count' = 60
                  /\ fps_update_timer' = C9_Sum(60)
                  /\ current_fps' = current_fps
            /\ C9_Nth(61) => C9_Closed]_vars

\* the window still open after 60 frames of 1/60 s
C9_Witness ==
    /\ event.type = "RedrawRequested"
    /\ event.dt = Frame60
    /\ frame_count = 60
    /\ fps_update_timer = C9_Sum(60)
    /\ current_fps = F32Zero

-----------------------------------------------------------------------------
(***************************************************************************)
(* SpecReset: cameras that have moved, turned, changed speed and changed   *)
(* aspect, and frames with the reset key held.                             *)
(***************************************************************************)
ResetPositions == {<<0, 0>>, <<135000, 8900000>>}

NextReset ==
    \/ \E st \in KeyStates : OnKeyboardInput("KeyR", st, "Ok")
    \/ \E k \in {"KeyW", "Tab"} : OnKeyboardInput(k, "Pressed", "Ok")
    \/ OnMouseWheel(LineDelta(72))
    \/ \E pos \in ResetPositions : OnCursorMoved(pos)
    \/ OnResized(<<800, 500>>)
    \/ OnRedrawRequested(Seconds(1), "Ok")

SpecReset == Init /\ [][NextReset]_vars

\* position, yaw, pitch and speed have their defaults
C10_Defaults(cam) ==
    /\ cam.position = <<0, 0, -3 * PosScale>>
    /\ cam.yaw = 90 * AngleScale
    /\ cam.pitch = 0
    /\ cam.speed = 2 * SpeedScale

\* aspect, sensitivity, fovy, znear, zfar and up are the same in both cameras
C10_Frame(a, b) ==
    /\ a.aspect = b.aspect
    /\ a.sensitivity = b.sensitivity
    /\ a.fovy = b.fovy
    /\ a.znear = b.znear
    /\ a.zfar = b.zfar
    /\ a.up = b.up

\* C10: Camera.reset() sets position to (0, 0, -3), yaw to 90, pitch to 0 and
\* speed to 2.0 and leaves aspect, sensitivity, fovy, znear, zfar and up as
\* they were; calling it twice gives the same camera as calling it once; and a
\* frame with the reset key held leaves the camera so.
C10_ResetEffect ==
    /\ [](/\ C10_Defaults(reset(camera))
          /\ C10_Frame(reset(camera), camera)
          /\ reset(reset(camera)) = reset(camera))
    /\ [][event'.type = "RedrawRequested" /\ "KeyR" \in keys_pressed =>
            /\ C10_Defaults(camera')
            /\ C10_Frame(camera', camera)]_vars

\* a frame with the reset key held that brought back a camera that had moved,
\* turned, sped up and changed aspect
C10_Witness ==
    /\ event.type = "RedrawRequested"
    /\ "KeyR" \in keys_pressed
    /\ C10_Defaults(camera)
    /\ camera.aspect = aspect_of(<<800, 500>>)
    /\ gpu_uniforms.camera_pos = DefaultPosition
    /\ uniforms.time = F32FromInt(2)

-----------------------------------------------------------------------------
(***************************************************************************)
(* SpecVariant: the digit keys, pressed one at a time and released, and    *)
(* frames of a second.                                                     *)
(***************************************************************************)
VariantKeys ==
    {"Digit1", "Digit2", "Digit3", "Digit4", "Digit5", "Digit6", "Digit0"}

NextVariant ==
    \/ /\ keys_pressed \cap VariantKeys = {}
       /\ \E k \in VariantKeys : OnKeyboardInput(k, "Pressed", "Ok")
    \/ \E k \in keys_pressed \cap VariantKeys : OnKeyboardInput(k, "Released", "Ok")
    \/ OnRedrawRequested(Seconds(1), "Ok")

SpecVariant == Init /\ [][NextVariant]_vars

\* the value a variant key stands for
C11_Value(keycode) ==
    CASE keycode = "Digit1" -> 0
      [] keycode = "Digit2" -> 1
      [] keycode = "Digit3" -> 2
      [] keycode = "Digit4" -> 3
      [] keycode = "Digit5" -> 4
      [] keycode = "Digit6" -> 5
      [] keycode = "Digit0" -> 99

\* the name of the variant a key stands for
C11_Name(keycode) ==
    CASE keycode = "Digit1" -> "Mandelbulb"
      [] keycode = "Digit2" -> "Julia Set"
      [] keycode = "Digit3" -> "Menger Sponge"
      [] keycode = "Digit4" -> "Kleinian"
      [] keycode = "Digit5" -> "Apollonian"
      [] keycode = "Digit6" -> "Mandelbox"
      [] keycode = "Digit0" -> "Auto-cycle"

\* the frame being handled is the first one, and the last event before it was
\* about a variant key: pressed alone and still held, or pressed alone and
\* released since (under SpecVariant a key goes down only with no other variant
\* key held, and only a held key is released)
C11_FirstFrameAfterKeyDown ==
    /\ event'.type = "RedrawRequested"
    /\ uniforms.time = F32Zero
    /\ event.type = "KeyboardInput"
    /\ event.keycode \in VariantKeys

\* C11: for each variant key (digits 1-6 for the values 0-5, digit 0 for 99),
\* after a key-down of that key with no other variant key held, the snapshot
\* produced by the next frame has fractal_type equal to the key's value and
\* get_fractal_name on it returns that variant's name.
C11_VariantSelected ==
    [][C11_FirstFrameAfterKeyDown =>
          /\ gpu_uniforms'.fractal_type = C11_Value(event.keycode)
          /\ get_fractal_name(gpu_uniforms') = C11_Name(event.keycode)]_vars

-----------------------------------------------------------------------------
(***************************************************************************)
(* SpecRender: frames whose render() returns each SurfaceError, resizes to *)
(* positive and to zero-area sizes, and the power-up key so that frames    *)
(* change the snapshot.                                                    *)
(***************************************************************************)
RenderResults == {"Ok", "Lost", "Outdated", "Timeout", "OutOfMemory"}

ResizeSizes == {<<800, 500>>, <<0, 600>>, <<800, 0>>, <<0, 0>>}

NextRender ==
    \/ \E st \in KeyStates : OnKeyboardInput("KeyE", st, "Ok")
    \/ \E size \in ResizeSizes : OnResized(size)
    \/ \E result \in RenderResults : OnRedrawRequested(Seconds(1), result)

SpecRender == Init /\ [][NextRender]_vars

\* the frame just handled called Renderer::resize with the size the Renderer had
C12_SizeReissued ==
    \E i \in DOMAIN calls' :
        /\ calls'[i].call = "renderer.resize"
        /\ calls'[i].arg = renderer_size

\* C12: whenever render() reports a recoverable surface condition (surface
\* lost or surface outdated), the last known size is handed to the Renderer
\* again (resize) while the same frame is handled, and the loop does not exit.
C12_SurfaceRecovered ==
    [][/\ event'.type = "RedrawRequested"
       /\ event'.render \in {"Lost", "Outdated"}
       => C12_SizeReissued /\ ~exited']_vars

\* the frame just handled left the camera, the input state and the snapshot as
\* update() made them, and called neither resize nor exit
C13_OnlyUpdated ==
    LET cam == update_camera_and_target(camera, keys_pressed, event'.dt)
    IN  /\ camera' = cam
        /\ uniforms' = update_snapshot(uniforms, cam, keys_pressed,
                                       as_secs_f32(event'.dt))
        /\ gpu_uniforms' = uniforms'
        /\ UNCHANGED <<inputVars, renderer_size>>
        /\ \A i \in DOMAIN calls' :
              calls'[i].call \notin {"renderer.resize", "control_flow.exit"}

\* C13: a render() result of out-of-memory always ends the loop and is the only
\* render result that does; every other error result that is not a surface
\* loss leaves the loop running and leaves the camera, the input state and the
\* snapshot as update() made them.
C13_FatalOrBestEffort ==
    [][event'.type = "RedrawRequested" /\ ~panicked' =>
          /\ exited' <=> event'.render = "OutOfMemory"
          /\ event'.render \in {"Outdated", "Timeout"} => C13_OnlyUpdated]_vars

\* a frame with the power-up key held whose render() timed out: the power went
\* up and the loop goes on
C13_Witness ==
    /\ event.type = "RedrawRequested"
    /\ event.render = "Timeout"
    /\ ~exited
    /\ "KeyE" \in keys_pressed
    /\ uniforms.fractal_power = F32FromInt(10)
    /\ gpu_uniforms = uniforms

-----------------------------------------------------------------------------
(***************************************************************************)
(* SpecForward: the camera is turned and its speed is set before the first *)
(* frame, the forward key goes down or stays up, and frames of 1/60 s      *)
(* follow.                                                                 *)
(***************************************************************************)
ForwardPositions == {<<0, 0>>, <<135000, 0>>}

NextForward ==
    \/ /\ uniforms.time = F32Zero
       /\ \/ OnKeyboardInput("KeyW", "Pressed", "Ok")
          \/ OnMouseInput("Left", "Pressed", "Ok")
          \/ \E pos \in ForwardPositions : OnCursorMoved(pos)
          \/ OnMouseWheel(LineDelta(8))
    \/ OnRedrawRequested(Frame60, "Ok")

SpecForward == Init /\ [][NextForward]_vars

\* speed * dt for a frame of 1/60 s, in length units
C14_Step == (camera.speed * (PosScale \div SpeedScale)) \div 60

\* the unit vector along (yaw, pitch): (cos yaw cos pitch, sin pitch,
\* sin yaw cos pitch), normalized
C14_Direction(yaw, pitch) ==
    normalize(<<RoundDiv(Cos(yaw) * Cos(pitch), TrigScale),
                Sin(pitch),
                RoundDiv(Sin(yaw) * Cos(pitch), TrigScale)>>)

\* C14: with only the forward key held, each frame of duration dt moves
\* Camera.position by speed * dt along the current forward direction and
\* changes nothing else of the pose; from the default pose (yaw 90, pitch 0,
\* speed 2.0) 60 frames of 1/60 s move the position 2.0 units along (0, 0, 1),
\* from (0, 0, -3) to (0, 0, -1).
C14_ForwardMovement ==
    /\ [][event'.type = "RedrawRequested" /\ "KeyW" \in keys_pressed =>
            /\ camera'.position =
                 VAdd(camera.position,
                      VScale(C14_Direction(camera.yaw, camera.pitch), C14_Step))
            /\ camera'.target =
                 VAdd(camera'.position, C14_Direction(camera.yaw, camera.pitch))
            /\ camera' = [camera EXCEPT !.position = camera'.position,
                                        !.target = camera'.target]]_vars
    /\ [](/\ event.type = "RedrawRequested"
          /\ "KeyW" \in keys_pressed
          /\ frame_count = 60 /\ uniforms.time = C9_Sum(60)
          /\ camera.yaw = 90 * AngleScale /\ camera.speed = 2 * SpeedScale
          => camera.position = <<0, 0, -PosScale>>)

\* the 60th frame of 1/60 s with the forward key held from the default pose
C14_Witness ==
    /\ event.type = "RedrawRequested"
    /\ "KeyW" \in keys_pressed
    /\ frame_count = 60 /\ uniforms.time = C9_Sum(60)
    /\ camera.yaw = 90 * AngleScale /\ camera.speed = 2 * SpeedScale
    /\ camera.position = <<0, 0, -PosScale>>

-----------------------------------------------------------------------------
(***************************************************************************)
(* SpecPointer: pointer moves with capture on and off, with and without    *)
(* the secondary button.                                                   *)
(***************************************************************************)
PointerPositions == {<<0, 0>>, <<135000, 20000>>}

NextPointer ==
    \/ OnKeyboardInput("Tab", "Pressed", "Ok")
    \/ \E st \in KeyStates : OnMouseInput("Right", st, "Ok")
    \/ \E pos \in PointerPositions : OnCursorMoved(pos)

SpecPointer == Init /\ [][NextPointer]_vars

\* degrees per pixel of a pointer move, in angle units
C15_Sensitivity ==
    IF right_mouse_pressed THEN (camera.sensitivity * 3) \div 10
    ELSE camera.sensitivity

\* C15: every pointer-move event sets last_mouse_pos to the event position
\* whether or not capture is on, and nothing else writes it; with capture off
\* the event leaves the camera (yaw, pitch, position, target) unchanged; with
\* capture on, yaw and pitch change by the delta from the most recently
\* observed position (observed captured or not), pitch being clamped.
C15_PointerMove ==
    /\ [][event'.type = "CursorMoved" =>
            /\ last_mouse_pos' = event'.position
            /\ ~mouse_captured => camera' = camera
            /\ mouse_captured =>
                 /\ camera'.yaw = camera.yaw
                      + (event'.position[1] - last_mouse_pos[1]) * C15_Sensitivity
                 /\ camera'.pitch = clamp(camera.pitch
                      - (event'.position[2] - last_mouse_pos[2]) * C15_Sensitivity,
                      -89 * AngleScale, 89 * AngleScale)
                 /\ camera'.position = camera.position]_vars
    /\ [][event'.type # "CursorMoved" => last_mouse_pos' = last_mouse_pos]_vars

\* a captured move back to the origin from a position that was observed while
\* capture was off: yaw has gone from 90 to -180 degrees
C15_Witness ==
    /\ event.type = "CursorMoved"
    /\ mouse_captured
    /\ last_mouse_pos = <<0, 0>>
    /\ camera.yaw = -180 * AngleScale
    /\ camera.pitch = 40 * AngleScale

-----------------------------------------------------------------------------
\* the target lies one unit from the position along (yaw, pitch)
C16_TargetDerived(cam) ==
    cam.target = VAdd(cam.position, C14_Direction(cam.yaw, cam.pitch))

\* the camera as Camera::new leaves it: the target is the origin, three units
\* from the position along (yaw, pitch) = (90, 0)
C16_AsConstructed(cam) ==
    /\ cam.target = <<0, 0, 0>>
    /\ cam.position = <<0, 0, -3 * PosScale>>
    /\ cam.yaw = 90 * AngleScale
    /\ cam.pitch = 0

\* C16 as stated: after every frame and after every pointer-move event the
\* target equals position + unit direction(yaw, pitch).
C16_TargetAfterEveryMove ==
    [][event'.type \in {"RedrawRequested", "CursorMoved"} =>
         C16_TargetDerived(camera')]_vars

\* C16, amended: after every frame and after every pointer-move handled while
\* capture is on, the target equals position + unit direction(yaw, pitch);
\* the target is written by nothing else, so until the first of these it is
\* the constructor's origin, which lies along direction(90, 0) from the
\* constructor's position; hence in every state the vector from position to
\* target, which a frame normalizes into its forward vector, points along
\* direction(yaw, pitch).
C16_TargetInvariant ==
    /\ [][\/ event'.type = "RedrawRequested"
          \/ event'.type = "CursorMoved" /\ mouse_captured
          => C16_TargetDerived(camera')]_vars
    /\ [][camera'.target # camera.target =>
            \/ event'.type = "RedrawRequested"
            \/ event'.type = "CursorMoved" /\ mouse_captured]_vars
    /\ [](/\ C16_TargetDerived(camera) \/ C16_AsConstructed(camera)
          /\ normalize(VSub(camera.target, camera.position))
               = C14_Direction(camera.yaw, camera.pitch))

\* a frame has moved a turned camera and re-derived its target
C16_Witness ==
    /\ event.type = "RedrawRequested"
    /\ camera.yaw # 90 * AngleScale
    /\ camera.position # <<0, 0, -3 * PosScale>>
    /\ camera.target # <<0, 0, 0>>
    /\ C16_TargetDerived(camera)

-----------------------------------------------------------------------------
\* a snapshot that differs from u in the fields copied from the camera: they
\* hold the values of a displaced camera with another field of view
C17_Stale(u) ==
    LET displaced == [camera EXCEPT !.position = <<PosScale, PosScale, PosScale>>,
                                    !.target = <<0, 0, 0>>,
                                    !.fovy = camera.fovy + 1]
    IN  [u EXCEPT !.view_matrix = build_view_projection_matrix(displaced)[1],
                  !.projection_matrix = build_view_projection_matrix(displaced)[2],
                  !.camera_pos = displaced.position]

\* a snapshot with the accumulated time of u and the parameters of
\* Uniforms::new
C17_Fresh(u) == [Uniforms_new EXCEPT !.time = u.time]

\* the snapshot a frame uploads when it is entered with previous snapshot prev
C17_Uploaded(prev) ==
    update_snapshot(prev,
                    update_camera_and_target(camera, keys_pressed, event'.dt),
                    keys_pressed, as_secs_f32(event'.dt))

\* C17 as stated: frames entered with equal Camera, InputState, accumulated
\* time and dt upload equal snapshots whatever the snapshot's previous field
\* values were.
C17_NoCarriedState ==
    [][event'.type = "RedrawRequested" /\ ~panicked' =>
         /\ gpu_uniforms' = C17_Uploaded(C17_Stale(uniforms))
         /\ gpu_uniforms' = C17_Uploaded(C17_Fresh(uniforms))
         /\ gpu_uniforms' = C17_Uploaded(C17_Stale(C17_Fresh(uniforms)))]_vars

\* C17, amended: the view matrix, the projection matrix and camera_pos of the
\* uploaded snapshot are recomputed from the Camera in every frame, whatever
\* their previous values were; time, fractal_power, fractal_iterations and
\* fractal_type are carried in the snapshot from frame to frame, so frames
\* entered with equal Camera, InputState, dt and equal previous time, power,
\* iterations and type upload equal snapshots.
C17_DerivedFieldsRecomputed ==
    [][event'.type = "RedrawRequested" /\ ~panicked' =>
         /\ gpu_uniforms' = C17_Uploaded(uniforms)
         /\ gpu_uniforms' = C17_Uploaded(C17_Stale(uniforms))
         /\ gpu_uniforms'.camera_pos = camera'.position
         /\ gpu_uniforms'.view_matrix = build_view_projection_matrix(camera')[1]
         /\ gpu_uniforms'.projection_matrix
              = build_view_projection_matrix(camera')[2]]_vars

\* a second frame with the power-up key held, after a resize: the power was
\* carried over from the first frame, the projection follows the new aspect
C17_Witness ==
    /\ event.type = "RedrawRequested"
    /\ ~panicked
    /\ gpu_uniforms.fractal_power = F32FromInt(12)
    /\ gpu_uniforms.projection_matrix.aspect = aspect_of(<<800, 500>>)
    /\ gpu_uniforms.camera_pos = camera.position

-----------------------------------------------------------------------------
\* C18: a resize event with both dimensions positive is passed to the
\* Renderer and sets camera.aspect to width / height; a resize event with a
\* zero width or height makes no Renderer call and leaves the Camera, the
\* InputState, the snapshot and the FPS counters unchanged.
C18_Resize ==
    [][event'.type = "Resized" =>
         LET width  == event'.size[1]
             height == event'.size[2]
         IN  IF width > 0 /\ height > 0
             THEN /\ Len(calls') = 1
                  /\ calls'[1].call = "renderer.resize"
                  /\ calls'[1].arg = event'.size
                  /\ renderer_size' = event'.size
                  /\ camera' = [camera EXCEPT !.aspect =
                                   F32Div(F32FromInt(width), F32FromInt(height))]
             ELSE /\ calls' = <<>>
                  /\ UNCHANGED <<camera, inputVars, uniforms, gpu_uniforms,
                                 appVars, renderer_size>>]_vars

\* an 800 x 500 resize has reached the Renderer and the camera
C18_Witness ==
    /\ event.type = "Resized"
    /\ event.size = <<800, 500>>
    /\ Len(calls) = 1
    /\ renderer_size = <<800, 500>>
    /\ camera.aspect = F32Div(F32FromInt(800), F32FromInt(500))
    /\ camera.aspect # aspect_of(InitialSize)

-----------------------------------------------------------------------------
(***************************************************************************)
(* SpecNudge: the iteration keys go down and up between frames of 30 ms    *)
(* and of one second.                                                      *)
(***************************************************************************)
NudgeKeys == {"KeyZ", "KeyX"}

NudgeFrames == {Nanos(30000000), Seconds(1)}

NextNudge ==
    \/ \E k \in NudgeKeys, st \in KeyStates : OnKeyboardInput(k, st, "Ok")
    \/ \E d \in NudgeFrames : OnRedrawRequested(d, "Ok")

SpecNudge == Init /\ [][NextNudge]_vars

\* dt * 20 rounded to the nearest integer, dt taken to the microsecond
C19_Round(d) ==
    d.secs * 20 + ((d.nanos \div 1000) * 20 + 500000) \div 1000000

\* C19: a frame of duration dt with only the iteration-up key of the pair held
\* makes fractal_iterations min(256, old + round(dt * 20)); with only the
\* iteration-down key held, max(8, old - round(dt * 20)).
C19_RoundedStep ==
    [][event'.type = "RedrawRequested" /\ ~panicked' =>
         /\ keys_pressed \cap NudgeKeys = {"KeyX"} =>
              uniforms'.fractal_iterations =
                 clamp(uniforms.fractal_iterations + C19_Round(event'.dt),
                       uniforms.fractal_iterations, 256)
         /\ keys_pressed \cap NudgeKeys = {"KeyZ"} =>
              uniforms'.fractal_iterations =
                 clamp(uniforms.fractal_iterations - C19_Round(event'.dt),
                       8, uniforms.fractal_iterations)]_vars

-----------------------------------------------------------------------------
(***************************************************************************)
(* SpecResetKeys: the reset key goes down and up while movement and        *)
(* modifier keys are held, on a camera that may have been turned, between  *)
(* frames of one second.                                                   *)
(***************************************************************************)
ResetHeldKeys == {"KeyW", "KeyD", "Space", "ShiftLeft", "ControlLeft"}

NextResetKeys ==
    \/ \E st \in KeyStates : OnKeyboardInput("KeyR", st, "Ok")
    \/ \E k \in ResetHeldKeys : OnKeyboardInput(k, "Pressed", "Ok")
    \/ /\ uniforms.time = F32Zero
       /\ \/ OnMouseInput("Left", "Pressed", "Ok")
          \/ \E pos \in ResetPositions : OnCursorMoved(pos)
    \/ OnRedrawRequested(Seconds(1), "Ok")

SpecResetKeys == Init /\ [][NextResetKeys]_vars

\* C20: at the end of every frame in which the reset key is held, whatever
\* movement and modifier keys are held with it, position, yaw, pitch and speed
\* have their defaults, the target is position + direction(90, 0) = (0, 0, -2),
\* and the snapshot uploaded by the frame carries the default position.
C20_ResetKeyPerFrame ==
    [][event'.type = "RedrawRequested" /\ "KeyR" \in keys_pressed =>
         /\ camera'.position = <<0, 0, -3 * PosScale>>
         /\ camera'.yaw = 90 * AngleScale
         /\ camera'.pitch = 0
         /\ camera'.speed = 2 * SpeedScale
         /\ camera'.target = <<0, 0, -2 * PosScale>>
         /\ gpu_uniforms'.camera_pos = <<0, 0, -3 * PosScale>>
         /\ gpu_uniforms'.view_matrix.eye = <<0, 0, -3 * PosScale>>
         /\ gpu_uniforms'.view_matrix.target = <<0, 0, -2 * PosScale>>]_vars

\* a second frame, with the reset key held together with a movement key and a
\* modifier, after a first frame that moved a turned camera
C20_Witness ==
    /\ event.type = "RedrawRequested"
    /\ {"KeyR", "KeyW", "ShiftLeft"} \subseteq keys_pressed
    /\ uniforms.time = F32FromInt(2)
    /\ last_mouse_pos = <<135000, 8900000>>
    /\ mouse_captured
    /\ camera.position = <<0, 0, -3 * PosScale>>
    /\ camera.target = <<0, 0, -2 * PosScale>>
    /\ gpu_uniforms.camera_pos = camera.position

-----------------------------------------------------------------------------
(***************************************************************************)
(* SpecChord: any of the variant keys go down and up, so that several are  *)
(* held at once, between frames of one second.                             *)
(***************************************************************************)
NextChord ==
    \/ \E k \in VariantKeys, st \in KeyStates : OnKeyboardInput(k, st, "Ok")
    \/ OnRedrawRequested(Seconds(1), "Ok")

SpecChord == Init /\ [][NextChord]_vars

\* the values fractal_type may take
C21_Domain == {0, 1, 2, 3, 4, 5, 99}

\* the digit on a variant key
C21_Digit(keycode) ==
    CASE keycode = "Digit0" -> 0
      [] keycode = "Digit1" -> 1
      [] keycode = "Digit2" -> 2
      [] keycode = "Digit3" -> 3
      [] keycode = "Digit4" -> 4
      [] keycode = "Digit5" -> 5
      [] keycode = "Digit6" -> 6

\* the variant chosen by a non-empty set of held variant keys: 99 if digit 0
\* is among them, otherwise the variant of the highest digit
C21_Winner(held) ==
    IF "Digit0" \in held THEN 99
    ELSE LET top == CHOOSE k \in held :
                       \A j \in held : C21_Digit(j) <= C21_Digit(k)
         IN  C21_Digit(top) - 1

\* C21: in every reachable state fractal_type is one of 0, 1, 2, 3, 4, 5 and
\* 99, in the application's snapshot and in the uploaded one, so
\* get_fractal_name never returns "Unknown"; a frame with several variant keys
\* held sets fractal_type to 99 if digit 0 is held and otherwise to the variant
\* of the highest held digit.
C21_VariantDomain ==
    /\ [](/\ uniforms.fractal_type \in C21_Domain
          /\ gpu_uniforms.fractal_type \in C21_Domain
          /\ get_fractal_name(uniforms) # "Unknown"
          /\ get_fractal_name(gpu_uniforms) # "Unknown")
    /\ [][/\ event'.type = "RedrawRequested"
          /\ ~panicked'
          /\ keys_pressed \cap VariantKeys # {}
          => /\ uniforms'.fractal_type = C21_Winner(keys_pressed \cap VariantKeys)
             /\ gpu_uniforms'.fractal_type = uniforms'.fractal_type]_vars

\* a frame with digits 2, 3 and 5 held has selected the variant of digit 5
C21_Witness ==
    /\ event.type = "RedrawRequested"
    /\ keys_pressed = {"Digit2", "Digit3", "Digit5"}
    /\ uniforms.fractal_type = 4
    /\ get_fractal_name(gpu_uniforms) = "Apollonian"

=============================================================================
